---- MODULE Spec2Model ----
(***************************************************************************)
(* Control loop of the multi-agent refactoring system:                     *)
(* CodeRefactorOrchestrator.refactor (src/src/agents/orchestrator.py)      *)
(* drives AUDIT -> FIX -> VALIDATE until a terminal status is reached.     *)
(* The three agents are the environment of the loop: each action takes     *)
(* the value an agent call returns as its input and then runs the          *)
(* orchestrator code that follows the call.                                *)
(***************************************************************************)
EXTENDS Integers, Sequences, FiniteSets, TLC

\* ------------------------------------------------------------------ bounds
MaxIter == 3         \* largest max_iterations explored
MaxIssues == 2       \* longest issue list of one file
MaxTests == 1        \* largest count in pytest's summary line
MaxText == 5         \* longest LLM reply, in pieces

\* max_iterations is stored unvalidated by __init__ (and --max-iterations is
\* a plain int), so zero and negative budgets are inputs of the program.
MaxIterationsValues == (0 - 1)..MaxIter

Files == {"A", "B"}
\* The loop reads an issue list only through its length, so the issue lists
\* explored are the prefixes of one list of distinct issue texts.
IssueTexts == <<"issue1", "issue2", "issue3", "issue4">>

\* ------------------------------------------------------- python helpers
\* dict.get(key, default)
Get(d, key, default) == IF key \in DOMAIN d THEN d[key] ELSE default

\* d[key] = value
SetItem(d, key, value) ==
    [k \in DOMAIN d \cup {key} |-> IF k = key THEN value ELSE d[k]]

\* text[:n] on a str
Slice(text, n) == IF Len(text) <= n THEN text ELSE SubSeq(text, 1, n)

\* A Python value the code reads without knowing its type, tagged with
\* type(value).__name__; of a str the text is kept.
Str(text) == [type |-> "str", value |-> text]

\* Issue lists of at most MaxIssues entries.
IssueLists == {SubSeq(IssueTexts, 1, n) : n \in 0..MaxIssues}

\* A Plan: mapping resource -> list of issues (a dict keyed by file path).
Plans == UNION {[S -> IssueLists] : S \in SUBSET Files}

\* len(plan): the number of keys.
TotalIssuesCountsFiles(p) == Cardinality(DOMAIN p)

\* sum(len(issues) for issues in plan.values()) over a dict of lists
RECURSIVE SumLen(_, _)
SumLen(p, S) ==
    IF S = {} THEN 0
    ELSE LET f == CHOOSE x \in S : TRUE
         IN Len(p[f]) + SumLen(p, S \ {f})

TotalIssues(p) == SumLen(p, DOMAIN p)

\* ------------------------------------------------ values agents return
\* What auditor.analyze hands back to refactor, tagged by its shape.
\* An auditor that returns the Plan mapping itself (a test double):
PlanReturn(p) == [shape |-> "plan", plan |-> p]

\* AuditorAgent.analyze, lines 55-59, 92-96 and 113-117: always the dict
\* {"issues_found": total_issues, "plan": global_plan,
\*  "files_analyzed": python_files}.
AnalyzeReturn(total_issues, global_plan, python_files) ==
    [shape |-> "analyze", issues_found |-> total_issues, plan |-> global_plan,
     files_analyzed |-> python_files]

\* list_python_files(target_dir), src/tools/file_operations.py lines 39-45:
\* the resolved path of every *.py entry, in the order rglob yields them.
\* Two entries may resolve to one path (a symbolic link), so a path may
\* come more than once.
FileLists == UNION {[1..n -> Files] : n \in 0..Cardinality(Files)}

\* analyze, lines 64-96, over the first n entries of python_files, where
\* found[i] is the issue list the i-th entry yields (the syntax errors or
\* the "issues" of the LLM's reply): a non-empty list is stored under the
\* path, replacing what an earlier entry stored there, and its length is
\* added to total_issues each time.
RECURSIVE analyze_files(_, _, _)
analyze_files(python_files, found, n) ==
    IF n = 0 THEN [global_plan |-> <<>>, total_issues |-> 0]
    ELSE LET before == analyze_files(python_files, found, n - 1)
         IN IF Len(found[n]) > 0
            THEN [global_plan |-> SetItem(before.global_plan, python_files[n],
                                          found[n]),
                  total_issues |-> before.total_issues + Len(found[n])]
            ELSE before

\* What analyze may return: the result of a pass over the files (lines
\* 92-96), or the dict of its except clause and of an empty directory.
AnalyzeResults ==
    UNION {{LET done == analyze_files(l, found, Len(l))
            IN AnalyzeReturn(done.total_issues, done.global_plan, l) :
               found \in [DOMAIN l -> IssueLists]} : l \in FileLists \ {<<>>}}
    \cup {AnalyzeReturn(0, <<>>, <<>>)}

AuditResults == {PlanReturn(p) : p \in Plans} \cup AnalyzeResults

\* "plan is None" in place of "not plan".
IsEmptyDictOnlyNone(r) == r.shape = "unset"

\* "not plan" (line 98) on the returned dict: a Plan mapping is falsy when
\* it has no key; the analyze dict always has its three keys.
IsEmptyDict(r) == r.shape = "plan" /\ DOMAIN r.plan = {}

\* Line 104 takes len() of every value of the returned dict: that works on
\* a dict of lists and raises TypeError on the int under "issues_found".
ValuesHaveLen(r) == r.shape = "plan"

\* Fixer result: a dict that may or may not carry "files_modified".
\* files_modified counts written files, so it ranges up to the number of files.
FixResults == UNION {[K -> 0..Cardinality(Files)] : K \in SUBSET {"files_modified"}}

\* Judge result: a dict that may or may not carry "all_passed",
\* "judge_action" and "judge_reason" (refactor reads "judge_status" too,
\* at line 141, and only prints it).
\* The action is a string refactor compares with two constants: next to the
\* values the contract and the prompt name, "RETRY" stands for any other.
JudgeActions ==
    {"STOP", "RETURN_TO_AUDIT", "RETURN_TO_FIXER", "REQUIRE_HUMAN", "RETRY"}

\* The reason is whatever the judge put under "judge_reason": a text, or a
\* value of another type (JudgeAgent hands on the "reason" of the LLM's JSON
\* object, which may be null, a number, a list or an object).
ReasonTexts == {"", "tests fail"}
OtherTypes == {"NoneType", "int", "list", "dict"}
Reasons == {Str(t) : t \in ReasonTexts} \cup {[type |-> t] : t \in OtherTypes}

TestResults ==
    { [k \in K |-> CASE k = "all_passed" -> ap
                      [] k = "judge_action" -> ac
                      [] k = "judge_reason" -> re] :
        K \in SUBSET {"all_passed", "judge_action", "judge_reason"},
        ap \in BOOLEAN, ac \in JudgeActions, re \in Reasons }

\* File contents: the texts "a" and "a=1", which ast.parse accepts, the
\* text "a=", which it rejects, and the empty text, which it accepts and
\* the Fixer's _has_syntax_error takes for an error.  Every prefix of one
\* of them is one of them, so a file that a failed write has cut short
\* still holds one of them.
ValidCodes == {"a", "a=1"}
InvalidCodes == {"", "a="}
Codes == ValidCodes \cup InvalidCodes

\* The length of the longest of these texts.
LongestCode == CHOOSE n \in {Len(c) : c \in Codes} : \A c \in Codes : Len(c) <= n

\* What the target directory may hold when the run starts.
Disks == [Files -> Codes]

\* The Plan of a run that finds two issues in one file.
ScenarioPlan == [f \in {"A"} |-> <<"issue1", "issue2">>]

\* The target files of that run: A holds a text that does not parse, B one
\* that does.
ScenarioDisk == [f \in Files |-> IF f = "A" THEN "a=" ELSE "a"]

\* Before the first assignment of the local plan.
NoPlan == [shape |-> "unset"]

TerminalStatuses == {"SUCCESS", "PARTIAL", "NEEDS_HUMAN", "STOPPED", "MAX_ITERATIONS"}

VARIABLES
    max_iterations,  \* self.max_iterations
    pc,              \* position of refactor: "loop" (line 86), "audit", "fix",
                     \* "judge" (inside the call of lines 96, 119, 138),
                     \* "report" (line 172, the loop has been left), "done"
                     \* (stats returned), "raised" (left by an exception)
    iteration,       \* local iteration
    stats,           \* the stats dict (the fields decisions and reports use)
    plan,            \* local plan: value this iteration's analyze returned
    files_modified,  \* local files_modified (line 121) of this iteration
    all_passed,      \* local all_passed (line 140) of this iteration
    judge_action,    \* local judge_action (line 142) of this iteration
    judge_reason,    \* local judge_reason (line 143) of this iteration
    calls,           \* history: number of invocations of each agent
    never_converge,  \* history: every agent call so far returned a non-converging
                     \* value (the judge's with a text as its reason), none
                     \* raised and no interrupt arrived
    exception,       \* the exception raised during the run, if any, and where
                     \* the run stood when it arose
    auditor,         \* the AuditorAgent.analyze call of this iteration
    fixer,           \* the FixerAgent.fix_issues call of this iteration
    judge,           \* the JudgeAgent.run_tests call of this iteration
    disk,            \* the text of each target file, as read_file returns it
    config           \* what the process finds when it starts (API key, target
                     \* directory) and whether the agents have been constructed

vars == <<max_iterations, pc, iteration, stats, plan, files_modified,
          all_passed, judge_action, judge_reason, calls, never_converge, exception,
          auditor, fixer, judge, disk, config>>

\* The three agent calls, as seen from refactor.
agentVars == <<auditor, fixer, judge>>

NoException == [type |-> "none"]
\* An agent object before its method is entered.
AgentIdle == [pc |-> "idle"]

\* refactor, lines 72-84: the locals and the stats dict before the loop.
InitLocals ==
    /\ max_iterations \in MaxIterationsValues
    /\ iteration = 0
    /\ stats = [iterations |-> 0, total_issues_found |-> 0,
                total_files_modified |-> 0, final_status |-> "UNKNOWN",
                final_message |-> ""]
    /\ plan = NoPlan
    /\ files_modified = 0
    /\ all_passed = FALSE
    /\ judge_action = ""
    /\ judge_reason = Str("")
    /\ calls = [audit |-> 0, fix |-> 0, judge |-> 0]
    /\ never_converge = TRUE
    /\ exception = NoException
    /\ auditor = AgentIdle
    /\ fixer = AgentIdle
    /\ judge = AgentIdle

\* refactor stands at the loop test for the first time.
InitRun == pc = "loop" /\ InitLocals

\* A configured run: MISTRAL_API_KEY is set, the target directory exists
\* and holds Python files, and the three agents have been constructed.
Configured == [api_key |-> TRUE, target |-> "python files", agents |-> TRUE]

\* The run of the scenario: file A does not parse, file B does.
Init == InitRun /\ disk = ScenarioDisk /\ config = Configured

\* "=" in place of "+=".
AccumulateOverwrite(total, n) == n

\* Lines 105 and 123: stats[...] += n.
Accumulate(total, n) == total + n

\* The two assignments ahead of a break (lines 100-102, 130-132, 147-149,
\* 166-168): the run goes on at line 172.
Break(st, status, message) ==
    /\ stats' = [st EXCEPT !.final_status = status, !.final_message = message]
    /\ pc' = "report"

\* Line 86: the loop condition.
LoopCondition == iteration < max_iterations

\* Lines 86-96: loop test, counter increment, start of the AUDIT call.
\* The locals of the previous iteration are dead here (each is assigned
\* again before it is read), so a new iteration starts without them.
WhileTest ==
    /\ pc = "loop"
    /\ IF LoopCondition
       THEN /\ iteration' = iteration + 1
            /\ stats' = [stats EXCEPT !.iterations = iteration + 1]
            /\ calls' = [calls EXCEPT !.audit = @ + 1]
            /\ pc' = "audit"
            /\ plan' = NoPlan
            /\ files_modified' = 0
            /\ all_passed' = FALSE
            /\ judge_action' = ""
            /\ judge_reason' = Str("")
            /\ auditor' = AgentIdle
            /\ fixer' = AgentIdle
            /\ judge' = AgentIdle
       ELSE /\ pc' = "report"
            /\ UNCHANGED <<iteration, stats, calls, plan, files_modified,
                           all_passed, judge_action, judge_reason, agentVars>>
    /\ UNCHANGED <<max_iterations, never_converge, exception, disk, config>>

\* Lines 96-119: analyze returns r; empty-plan test, issue accounting,
\* start of the FIX call.
AuditPhase(r) ==
    /\ pc = "audit"
    /\ plan' = r
    /\ never_converge' = (never_converge /\ r.shape = "plan" /\ DOMAIN r.plan # {})
    /\ IF IsEmptyDict(r)
       THEN /\ Break(stats, "SUCCESS", "Code is clean")
            /\ UNCHANGED <<calls, exception>>
       ELSE IF ~ValuesHaveLen(r)
       THEN \* len(int) raises TypeError at line 104; nothing catches it
            /\ pc' = "raised"
            /\ exception' = [type |-> "TypeError", at |-> "refactor"]
            /\ UNCHANGED <<stats, calls>>
       ELSE /\ stats' = [stats EXCEPT !.total_issues_found =
                                          Accumulate(@, TotalIssues(r.plan))]
            /\ calls' = [calls EXCEPT !.fix = @ + 1]
            /\ pc' = "fix"
            /\ UNCHANGED exception
    /\ UNCHANGED <<max_iterations, iteration, files_modified, all_passed,
                   judge_action, judge_reason, agentVars, disk, config>>

\* Line 128: the stall test on this iteration's files_modified.
StalledNegativeOnly(fm) == fm < 0
Stalled(fm) == fm = 0

\* Lines 119-138: fix_issues returns r; accounting, stall test, start of
\* the VALIDATE call.
FixPhase(r) ==
    /\ pc = "fix"
    /\ files_modified' = Get(r, "files_modified", 0)
    /\ never_converge' = (never_converge /\ files_modified' >= 1)
    /\ LET st == [stats EXCEPT !.total_files_modified =
                                    Accumulate(@, files_modified')]
       IN IF Stalled(files_modified')
          THEN /\ Break(st, "PARTIAL", "Fixer could not apply fixes")
               /\ UNCHANGED calls
          ELSE /\ stats' = st
               /\ calls' = [calls EXCEPT !.judge = @ + 1]
               /\ pc' = "judge"
    /\ UNCHANGED <<max_iterations, iteration, plan, all_passed, judge_action, judge_reason,
                   exception, agentVars, disk, config>>

\* Line 148.
Succeed ==
    /\ Break(stats, "SUCCESS",
             "Refactoring succeeded after " \o ToString(iteration) \o " iteration(s)")
    /\ UNCHANGED exception

\* Line 154 takes judge_reason[:150] for the print: a str and a list can be
\* sliced; None, a number and a dict raise TypeError.
Sliceable(reason) == reason.type \in {"str", "list"}

\* An exception of refactor's own code: nothing in refactor catches it.
RaiseTypeError(st) ==
    /\ stats' = st
    /\ pc' = "raised"
    /\ exception' = [type |-> "TypeError", at |-> "refactor"]

\* Lines 158-160 and 162-164: final_status is set, then the message is
\* built as prefix + judge_reason, which raises TypeError unless
\* judge_reason is a str.
EndWithReason(status, prefix, reason) ==
    IF reason.type = "str"
    THEN /\ Break(stats, status, prefix \o reason.value)
         /\ UNCHANGED exception
    ELSE RaiseTypeError([stats EXCEPT !.final_status = status])

\* Lines 166-168.
BudgetEnd ==
    /\ Break(stats, "MAX_ITERATIONS",
             "Max iterations reached (" \o ToString(max_iterations) \o ")")
    /\ UNCHANGED exception

\* Line 170: back to the loop test.
Retry ==
    /\ pc' = "loop"
    /\ UNCHANGED <<stats, exception>>

\* The cascade with the budget test off by one.
DecideLateBudget(passed, action, reason) ==
    IF passed THEN Succeed
    ELSE IF ~Sliceable(reason) THEN RaiseTypeError(stats)
    ELSE IF action = "REQUIRE_HUMAN"
    THEN EndWithReason("NEEDS_HUMAN", "Human intervention required: ", reason)
    ELSE IF action = "STOP"
    THEN EndWithReason("STOPPED", "Judge stopped process: ", reason)
    ELSE IF iteration > max_iterations THEN BudgetEnd
    ELSE Retry

\* The cascade without the STOP branch.
DecideNoStop(passed, action, reason) ==
    IF passed THEN Succeed
    ELSE IF ~Sliceable(reason) THEN RaiseTypeError(stats)
    ELSE IF action = "REQUIRE_HUMAN"
    THEN EndWithReason("NEEDS_HUMAN", "Human intervention required: ", reason)
    ELSE IF iteration >= max_iterations THEN BudgetEnd
    ELSE Retry

\* The cascade with RETURN_TO_FIXER sending the run back to the Fixer.
DecideReturnToFixer(passed, action, reason) ==
    IF passed THEN Succeed
    ELSE IF ~Sliceable(reason) THEN RaiseTypeError(stats)
    ELSE IF action = "REQUIRE_HUMAN"
    THEN EndWithReason("NEEDS_HUMAN", "Human intervention required: ", reason)
    ELSE IF action = "STOP"
    THEN EndWithReason("STOPPED", "Judge stopped process: ", reason)
    ELSE IF iteration >= max_iterations THEN BudgetEnd
    ELSE /\ pc' = (IF action = "RETURN_TO_FIXER" THEN "fix" ELSE "loop")
         /\ UNCHANGED <<stats, exception>>

\* The cascade going on only for RETURN_TO_AUDIT.
DecideAuditOnly(passed, action, reason) ==
    IF passed THEN Succeed
    ELSE IF ~Sliceable(reason) THEN RaiseTypeError(stats)
    ELSE IF action = "REQUIRE_HUMAN"
    THEN EndWithReason("NEEDS_HUMAN", "Human intervention required: ", reason)
    ELSE IF action # "RETURN_TO_AUDIT"
    THEN EndWithReason("STOPPED", "Judge stopped process: ", reason)
    ELSE IF iteration >= max_iterations THEN BudgetEnd
    ELSE Retry

\* Lines 145-170: the decision cascade on the judge's verdict.
Decide(passed, action, reason) ==
    IF passed THEN Succeed
    ELSE IF ~Sliceable(reason) THEN RaiseTypeError(stats)            \* line 154
    ELSE IF action = "REQUIRE_HUMAN"
    THEN EndWithReason("NEEDS_HUMAN", "Human intervention required: ", reason)
    ELSE IF action = "STOP"
    THEN EndWithReason("STOPPED", "Judge stopped process: ", reason)
    ELSE IF iteration >= max_iterations THEN BudgetEnd
    ELSE Retry

\* Lines 138-170: run_tests returns r; the verdict is read and decided on.
ValidatePhase(r) ==
    /\ pc = "judge"
    /\ all_passed' = Get(r, "all_passed", FALSE)
    /\ judge_action' = Get(r, "judge_action", "STOP")
    /\ judge_reason' = Get(r, "judge_reason", Str(""))
    /\ never_converge' =
          (never_converge /\ ~all_passed' /\ judge_action' = "RETURN_TO_AUDIT"
             /\ judge_reason'.type = "str")
    /\ Decide(all_passed', judge_action', judge_reason')
    /\ UNCHANGED <<max_iterations, iteration, plan, files_modified, calls,
                   agentVars, disk, config>>

\* Lines 172-202: the duration is computed, the summary printed, the report
\* saved (_save_report catches what goes wrong in it) and stats returned.
Report ==
    /\ pc = "report"
    /\ pc' = "done"
    /\ UNCHANGED <<max_iterations, iteration, stats, plan, files_modified,
                   all_passed, judge_action, judge_reason, calls,
                   never_converge, exception, agentVars, disk, config>>

\* Lines 96, 119 and 138 are plain calls: refactor has no try statement, so
\* an exception raised by analyze, fix_issues or run_tests leaves refactor
\* (main catches it at lines 224-229 and exits with code 1).
AgentRaises ==
    /\ pc \in {"audit", "fix", "judge"}
    /\ pc' = "raised"
    /\ exception' = [type |-> "Exception", at |-> pc]
    /\ never_converge' = FALSE
    /\ UNCHANGED <<max_iterations, iteration, stats, plan, files_modified,
                   all_passed, judge_action, judge_reason, calls, agentVars, disk, config>>

\* Ctrl+C: KeyboardInterrupt is raised on the main thread wherever it
\* stands: in main ahead of the run, in a constructor, inside an agent
\* call, in refactor's own code, or after the loop (summary, report, log).
\* No except clause of refactor, of __init__ or of the agents' try
\* statements (except Exception) matches it; when it arrives inside
\* refactor, main catches it at lines 219-222, prints a notice and
\* returns 130.
Interrupt ==
    /\ pc \in {"main", "new", "entry", "loop", "audit", "fix", "judge", "report"}
    /\ pc' = "raised"
    /\ exception' = [type |-> "KeyboardInterrupt", at |-> pc]
    /\ never_converge' = FALSE
    /\ UNCHANGED <<max_iterations, iteration, stats, plan, files_modified,
                   all_passed, judge_action, judge_reason, calls, agentVars, disk, config>>

Next ==
    \/ WhileTest
    \/ \E r \in AuditResults : AuditPhase(r)
    \/ \E r \in FixResults : FixPhase(r)
    \/ \E r \in TestResults : ValidatePhase(r)
    \/ Report
    \/ AgentRaises
    \/ Interrupt

Spec == Init /\ [][Next]_vars

\* refactor runs on one thread and every agent call it makes returns, so a
\* step that is possible is eventually taken.
LiveSpec == Spec /\ WF_vars(Next)

\* ================================================ main and construction
\* src/main.py lines 148-188 and CodeRefactorOrchestrator.__init__ and the
\* first statement of refactor.  pc: "main" (main entered), "new" (the
\* orchestrator is about to be constructed), "entry" (refactor is about to
\* be called), "exit" (main returned 1 without a run).

\* The target path: missing, a directory without Python files, or a
\* directory holding Python files.
Targets == {"missing", "no python files", "python files"}

\* What the process may find when it starts; no agent exists yet.
Configs == [api_key : BOOLEAN, target : Targets, agents : {FALSE}]

\* The process is started through main.py, or a caller constructs the
\* orchestrator itself (src/test_agents.py does).
ConfigInit ==
    /\ pc \in {"main", "new"}
    /\ InitLocals
    /\ disk = ScenarioDisk
    /\ config \in Configs

\* src/main.py lines 96-145: validate_target_directory.
validate_target_directory(target) == target = "python files"

\* orchestrator.py lines 270-293: validate_environment (the mistralai
\* package is installed).
validate_environment(api_key) == api_key

\* src/main.py lines 159-171: main returns 1 when a validation fails.
MainValidate ==
    /\ pc = "main"
    /\ pc' = IF validate_target_directory(config.target)
                 /\ validate_environment(config.api_key)
             THEN "new" ELSE "exit"
    /\ UNCHANGED <<max_iterations, iteration, stats, plan, files_modified,
                   all_passed, judge_action, judge_reason, calls, never_converge, exception,
                   agentVars, disk, config>>

\* An agent constructor that does not test the key.
agent_init_unchecked(api_key, client) ==
    IF client = "raise" THEN "Exception" ELSE "ok"

\* AuditorAgent.__init__ (lines 24-34), FixerAgent.__init__ (21-29) and
\* JudgeAgent.__init__ (20-27): ValueError without MISTRAL_API_KEY;
\* otherwise the Mistral client is constructed, which may raise.
agent_init(api_key, client) ==
    IF ~api_key THEN "ValueError"
    ELSE IF client = "raise" THEN "Exception"
    ELSE "ok"

\* CodeRefactorOrchestrator.__init__, lines 36-54: the three agents are
\* constructed in turn from the same environment; the first exception is
\* printed and raised again.
Construct(client) ==
    /\ pc = "new"
    /\ LET outcome == agent_init(config.api_key, client)
       IN IF outcome = "ok"
          THEN /\ config' = [config EXCEPT !.agents = TRUE]
               /\ pc' = "entry"
               /\ UNCHANGED exception
          ELSE /\ pc' = "raised"
               /\ exception' = [type |-> outcome, at |-> "__init__"]
               /\ UNCHANGED config
    /\ UNCHANGED <<max_iterations, iteration, stats, plan, files_modified,
                   all_passed, judge_action, judge_reason, calls, never_converge,
                   agentVars, disk>>

\* refactor, lines 66-84: ValueError when the target does not exist.
RefactorEntry ==
    /\ pc = "entry"
    /\ IF config.target = "missing"
       THEN /\ pc' = "raised"
            /\ exception' = [type |-> "ValueError", at |-> "entry"]
       ELSE /\ pc' = "loop"
            /\ UNCHANGED exception
    /\ UNCHANGED <<max_iterations, iteration, stats, plan, files_modified,
                   all_passed, judge_action, judge_reason, calls, never_converge,
                   agentVars, disk, config>>

\* The program from its start: validation, construction, then the loop.
ConfigNext ==
    \/ MainValidate
    \/ \E client \in {"ok", "raise"} : Construct(client)
    \/ RefactorEntry
    \/ Next

ConfigSpec == ConfigInit /\ [][ConfigNext]_vars

\* ==================================================== AuditorAgent.analyze
\* src/src/agents/auditor_agent.py.  The file tools, pylint and the LLM
\* client are the auditor's environment; log_experiment returns.

\* max_retries of _analyze_file, line 142.
max_retries == 3

\* list_python_files(target_dir): raises, or returns the list of paths.
Listings ==
    {[kind |-> "raise"]} \cup {[kind |-> "files", files |-> l] : l \in FileLists}

\* What lines 71-81 meet for one file: read_file raises; or it returns the
\* text of the file, in which _check_syntax finds a syntax error; or the
\* text parses and run_pylint raises or the file reaches the LLM.
FileSteps == {"read_file raises", "syntax error", "run_pylint raises", "to LLM"}

\* _check_syntax, lines 119-134: a list holding one message when
\* ast.parse(code) raises (it accepts the empty text), otherwise empty.
syntax_errors == SubSeq(IssueTexts, 1, 1)
check_syntax(code) == IF code \in InvalidCodes \ {""} THEN syntax_errors ELSE <<>>

\* A Python str is the tuple of its characters (len counts them).
IssuesText == <<"f", "i", "x">>

\* One LLM call of _analyze_file and the parse of its reply.  The call
\* raises; or the reply is not JSON (json.loads raises); or it is JSON but
\* not an object; or an object whose "issues" is a number, a string, or
\* missing; or an object with a list of issues.  quota tells whether the
\* text of the exception holds "429" or "quota": an API error may, and so
\* may a JSONDecodeError, which quotes the offset of the error (char 429).
\* printable tells whether print accepts that text (line 196): the text of
\* the client's exception may hold a lone surrogate, on which print raises
\* UnicodeEncodeError; the texts of JSONDecodeError, AttributeError and
\* TypeError are Python's own.
Replies ==
    {[kind |-> "call raises", quota |-> q, printable |-> b] :
        q \in BOOLEAN, b \in BOOLEAN}
    \cup {[kind |-> "not json", quota |-> q, printable |-> TRUE] : q \in BOOLEAN}
    \cup {[kind |-> k, quota |-> FALSE, printable |-> TRUE] :
             k \in {"not an object", "issues number"}}
    \cup {[kind |-> "issues text", issues |-> IssuesText]}
    \cup {[kind |-> "no issues key"]}
    \cup {[kind |-> "issues list", issues |-> l] : l \in IssueLists}

\* {"issues": []}
EmptyIssues == [issues |-> <<>>]

\* _analyze_file, lines 145-199: one pass of the retry loop.  It returns
\* the parsed reply when len(analysis.get("issues", [])) can be taken
\* (lines 162-178), and otherwise lands in the except clause (lines 180-197),
\* which the exception of its own print (line 196) leaves.
analyze_file(reply, retry_count) ==
    IF reply.kind \in {"issues list", "issues text"}
    THEN [kind |-> "return", analysis |-> [issues |-> reply.issues]]
    ELSE IF reply.kind = "no issues key"
    THEN [kind |-> "return", analysis |-> [summary |-> "fine"]]
    ELSE IF reply.quota
    THEN IF retry_count + 1 < max_retries
         THEN [kind |-> "retry"]                                \* lines 185-190
         ELSE [kind |-> "return", analysis |-> EmptyIssues]     \* lines 192-193
    ELSE IF reply.printable
    THEN [kind |-> "return", analysis |-> EmptyIssues]          \* lines 196-197
    ELSE [kind |-> "raise"]                                     \* line 196

\* Lines 98-117: the except clause of analyze.
analyze_except(total_issues, global_plan, python_files) ==
    AnalyzeReturn(0, <<>>, <<>>)

\* The test on the presence of the key in place of the test on its value.
has_issues_key(file_plan) == "issues" \in DOMAIN file_plan

\* Line 86: file_plan and file_plan.get("issues") -- a dict that holds a
\* non-empty value under "issues".
has_issues(file_plan) == Len(Get(file_plan, "issues", <<>>)) > 0

\* Line 96, the call, down to line 65.
AuditorCall(listing) ==
    /\ pc = "audit"
    /\ auditor.pc = "idle"
    /\ auditor' =
         IF listing.kind = "raise"
         THEN [pc |-> "returned", python_files |-> <<>>, log |-> <<>>,
               caught |-> "list_python_files",
               result |-> analyze_except(0, <<>>, <<>>)]
         ELSE IF listing.files = <<>>
         THEN [pc |-> "returned", python_files |-> <<>>, log |-> <<>>,
               caught |-> "none",
               result |-> AnalyzeReturn(0, <<>>, <<>>)]        \* lines 53-59
         ELSE [pc |-> "files", python_files |-> listing.files, log |-> <<>>,
               caught |-> "none", idx |-> 1, global_plan |-> <<>>,
               total_issues |-> 0,                              \* lines 64-65
               retry_count |-> 0, tries |-> <<>>]
    /\ UNCHANGED <<max_iterations, pc, iteration, stats, plan, files_modified,
                   all_passed, judge_action, judge_reason, calls, never_converge, exception,
                   fixer, judge, disk, config>>

\* analyze has caught an exception: lines 98-117.
AuditorFails(what, file_path) ==
    auditor' = [pc |-> "returned", python_files |-> auditor.python_files,
                log |-> Append(auditor.log, [file |-> file_path, step |-> what,
                                             found |-> <<>>]),
                caught |-> what,
                result |-> analyze_except(auditor.total_issues, auditor.global_plan,
                                          auditor.python_files)]

\* Lines 67-81: the next file, up to the call of _analyze_file.
AuditorFile(step) ==
    /\ pc = "audit"
    /\ auditor.pc = "files"
    /\ auditor.idx <= Len(auditor.python_files)
    /\ LET file_path == auditor.python_files[auditor.idx]
           code_content == disk[file_path]                      \* line 71
           errors == check_syntax(code_content)                 \* line 74
       IN /\ step = "syntax error" => errors # <<>>
          /\ step \in {"run_pylint raises", "to LLM"} => errors = <<>>
          /\ IF step \in {"read_file raises", "run_pylint raises"}
             THEN AuditorFails(step, file_path)
             ELSE IF step = "syntax error"
             THEN auditor' = [auditor EXCEPT                    \* lines 75-78
                     !.global_plan = SetItem(@, file_path, errors),
                     !.total_issues = @ + Len(errors),
                     !.idx = @ + 1,
                     !.log = Append(@, [file |-> file_path, step |-> step,
                                        found |-> errors])]
             ELSE auditor' = [auditor EXCEPT !.pc = "llm", !.retry_count = 0,
                                             !.tries = <<>>]
    /\ UNCHANGED <<max_iterations, pc, iteration, stats, plan, files_modified,
                   all_passed, judge_action, judge_reason, calls, never_converge, exception,
                   fixer, judge, disk, config>>

\* Lines 84-88 with one pass of the loop of _analyze_file: the LLM answers.
\* tries is the history of the replies of this file that led to a retry.
\* An exception that leaves _analyze_file is caught by analyze (line 98).
AuditorLLM(reply) ==
    /\ pc = "audit"
    /\ auditor.pc = "llm"
    /\ LET file_path == auditor.python_files[auditor.idx]
           outcome == analyze_file(reply, auditor.retry_count)
       IN IF outcome.kind = "retry"
          THEN auditor' = [auditor EXCEPT !.retry_count = @ + 1,
                                          !.tries = Append(@, reply.kind)]
          ELSE IF outcome.kind = "raise"
          THEN AuditorFails("_analyze_file raises", file_path)
          ELSE LET file_plan == outcome.analysis
                   issues == Get(file_plan, "issues", <<>>)
                   kept == has_issues(file_plan)                  \* line 86
               IN auditor' = [auditor EXCEPT
                      !.pc = "files",
                      !.global_plan = IF kept THEN SetItem(@, file_path, issues) ELSE @,
                      !.total_issues = IF kept THEN @ + Len(issues) ELSE @,
                      !.idx = @ + 1,
                      !.tries = <<>>,
                      !.log = Append(@, [file |-> file_path, step |-> reply.kind,
                                         file_plan |-> file_plan,
                                         tries |-> auditor.tries,
                                         found |-> IF kept THEN issues ELSE <<>>])]
    /\ UNCHANGED <<max_iterations, pc, iteration, stats, plan, files_modified,
                   all_passed, judge_action, judge_reason, calls, never_converge, exception,
                   fixer, judge, disk, config>>

\* Lines 90-96: every file has been handled.
AuditorFinish ==
    /\ pc = "audit"
    /\ auditor.pc = "files"
    /\ auditor.idx > Len(auditor.python_files)
    /\ auditor' = [pc |-> "returned", python_files |-> auditor.python_files,
                   log |-> auditor.log, caught |-> "none",
                   result |-> AnalyzeReturn(auditor.total_issues, auditor.global_plan,
                                            auditor.python_files)]
    /\ UNCHANGED <<max_iterations, pc, iteration, stats, plan, files_modified,
                   all_passed, judge_action, judge_reason, calls, never_converge, exception,
                   fixer, judge, disk, config>>

\* The returned dict becomes the local plan and refactor goes on from line 98.
AuditorReturn ==
    /\ auditor.pc = "returned"
    /\ AuditPhase(auditor.result)

\* refactor with AuditorAgent.analyze behind self.auditor: the program as
\* main.py runs it, up to the first statement after the Auditor's return.
AuditorNext ==
    \/ WhileTest
    \/ \E listing \in Listings : AuditorCall(listing)
    \/ \E step \in FileSteps : AuditorFile(step)
    \/ \E reply \in Replies : AuditorLLM(reply)
    \/ AuditorFinish
    \/ AuditorReturn
    \/ Report

\* The target directory holds any texts when the run starts.
AuditorInit == InitRun /\ disk \in Disks /\ config = Configured

AuditorSpec == AuditorInit /\ [][AuditorNext]_vars

\* ===================================================== JudgeAgent.run_tests
\* src/src/agents/judge_agent.py.  The services the judge calls are its
\* environment: run_pytest and the LLM client.

\* The text of the exception run_pytest raised before the tests ran
\* (subprocess.run could not start the process), str(e): a short one and
\* one of more than 100 characters.
PytestErrors ==
    {"pytest not found",
     "[Errno 2] No such file or directory: 'pytest' while running the test "
       \o "suite of the target directory; PATH holds no pytest executable"}

\* The names _extract_failed_tests (lines 208-225) finds in the output.
FailedTests == {<<>>, <<"test_a">>, <<"test_a", "test_b">>}

\* What the tests of the target directory do to its files: run_pytest runs
\* "python -m pytest . -v" with the target directory as working directory
\* (src/tools/run_pytest.py, lines 7-12), so the code of the target is
\* executed there; it leaves the files alone or rewrites one of them.
PytestWrites ==
    {[kind |-> "none"]}
    \cup {[kind |-> "write", file |-> f, content |-> c] : f \in Files, c \in Codes}

\* run_pytest(target_dir): the subprocess call raises, or it returns
\* success (exit code 0) and the output, of which run_tests reads only the
\* counts in front of "passed" and "failed" (0 when the word is absent) and
\* the names of the failed tests.  success is the exit code of the pytest
\* process (src/tools/run_pytest.py, line 15) and the counts are what the
\* two regular expressions find in the output: nothing ties them, a run
\* may exit with 0 and print "1 failed" (in the id of a test, say).
PytestRuns ==
    {[kind |-> "ran", success |-> s, passed |-> p, failed |-> f,
      failed_tests |-> t, writes |-> w] :
        s \in BOOLEAN, p \in 0..MaxTests, f \in 0..MaxTests, t \in FailedTests,
        w \in PytestWrites}

\* str(e) of the UnicodeDecodeError subprocess.run(text=True) raises when
\* the output of the tests is not UTF-8 (src/tools/run_pytest.py, line 7):
\* the process has ended by then, so the tests have run.
PytestDecodeErrors ==
    {"'utf-8' codec can't decode byte 0xff in position 54: invalid start byte"}

\* run_pytest raises before the tests run, or after they ran, or returns.
PytestOutcomes ==
    {[kind |-> "raise", error |-> e, writes |-> [kind |-> "none"]] :
        e \in PytestErrors}
    \cup {[kind |-> "raise", error |-> e, writes |-> w] :
             e \in PytestDecodeErrors, w \in PytestWrites}
    \cup PytestRuns

\* The files of the target directory after run_pytest, whether it
\* returned or raised: what the tests wrote stays written.
pytest_effect(d, writes) ==
    IF writes.kind = "write"
    THEN [d EXCEPT ![writes.file] = writes.content]
    ELSE d

\* The prompt (src/src/prompts/judge_prompt.py, lines 40 and 46) asks for
\* these status and action values; the reply is free text, so one value
\* outside each list stands for whatever else the model may answer.
LLMStatuses == {"PASS", "FAIL_FIXABLE", "FAIL_UNCERTAIN", "FAILED"}
LLMActions == {"STOP", "RETURN_TO_FIXER", "REQUIRE_HUMAN", "RETRY"}

\* The JSON object of a reply: "status", "action" and "reason" may each be
\* missing, and the value under "reason" is of any JSON type.
Decisions ==
    { [k \in K |-> CASE k = "status" -> st
                      [] k = "action" -> ac
                      [] k = "reason" -> re] :
        K \in SUBSET {"status", "action", "reason"},
        st \in LLMStatuses, ac \in LLMActions, re \in Reasons }

\* client.chat.complete raises, or the reply holds no JSON object
\* (_extract_json_from_response raises), or it holds one.  printable tells
\* whether print accepts the text that comes from the LLM: the text of the
\* exception (line 175), the reply (line 151) or the strings of the JSON
\* object (line 56).  A text with a lone surrogate, which the JSON escape
\* "\\ud83d" yields, makes print raise UnicodeEncodeError, and so does a
\* reply that is None at line 151 (TypeError).
LLMOutcomes ==
    {[kind |-> k, printable |-> b] : k \in {"raise", "unparsable"}, b \in BOOLEAN}
    \cup {[kind |-> "json", decision |-> d, printable |-> b] :
             d \in Decisions, b \in BOOLEAN}

\* str(e) of the UnicodeEncodeError print raises: at line 175, where the
\* text of the LLM's exception follows a prefix of 31 characters, and at
\* line 56, inside the report of the verdict.
PrintError175 ==
    "'utf-8' codec can't encode character '\\ud83d' in position 31: "
       \o "surrogates not allowed"
PrintError56 ==
    "'utf-8' codec can't encode character '\\ud83d' in position 218: "
       \o "surrogates not allowed"

\* Lines 86-103: the dict the except clause of run_tests returns.
run_tests_except(error) ==
    [all_passed |-> FALSE, judge_status |-> "FAIL_UNCERTAIN",
     judge_reason |-> Str("Error running tests: " \o Slice(error, 100)),
     judge_action |-> "STOP"]

\* _parse_pytest_output, lines 105-122.
parse_pytest_output(run) ==
    [total |-> run.passed + run.failed, passed |-> run.passed, failed |-> run.failed]

\* ', '.join(names)
RECURSIVE Join(_)
Join(names) ==
    IF Len(names) = 0 THEN ""
    ELSE IF Len(names) = 1 THEN names[1]
    ELSE names[1] \o ", " \o Join(Tail(names))

\* Lines 174-181: the dict the except clause of _get_llm_judgment returns.
AnalysisError ==
    [status |-> "ERROR", reason |-> Str("Could not analyze tests"), action |-> "STOP"]

\* _get_llm_judgment, lines 124-181 (the keys run_tests reads): the
\* decision it returns, or the exception that leaves it.
get_llm_judgment(llm, success, failed_tests) ==
    IF llm.kind = "raise"
    THEN \* lines 174-181: the except clause prints str(e)[:50]
         IF llm.printable
         THEN [kind |-> "return", decision |-> AnalysisError]
         ELSE [kind |-> "raise", error |-> PrintError175]      \* line 175
    ELSE IF llm.kind = "json"
    THEN [kind |-> "return", decision |-> llm.decision]         \* lines 146-148
    ELSE IF ~llm.printable
    THEN \* line 151 raises inside the handler of lines 149-151 and the
         \* except clause of line 174 takes it
         [kind |-> "return", decision |-> AnalysisError]
    ELSE IF success
    THEN [kind |-> "return",
          decision |-> [status |-> "SUCCESS", reason |-> Str("All tests passed"),
                        action |-> "STOP"]]                     \* lines 154-162
    ELSE [kind |-> "return",
          decision |-> [status |-> "FAIL_TEST",
                        reason |-> Str("Tests failed: " \o
                                       (IF Len(failed_tests) > 0
                                        THEN Join(failed_tests)
                                        ELSE "Unknown")),
                        action |-> "REQUIRE_HUMAN"]]            \* lines 163-172

\* The statement of run_tests whose exception its except clause (line 86)
\* caught, "none" when run_tests returned at line 76.
run_tests_caught(pytest, llm) ==
    IF pytest.kind = "raise" THEN "run_pytest"                  \* line 35
    ELSE IF get_llm_judgment(llm, pytest.success, pytest.failed_tests).kind = "raise"
    THEN "_get_llm_judgment"                                    \* line 44
    ELSE IF llm.kind = "json" /\ ~llm.printable
    THEN "print"                                                \* line 56
    ELSE "none"

\* run_tests, lines 29-103: the dict it returns.
run_tests(pytest, llm) ==
    LET caught == run_tests_caught(pytest, llm)
    IN IF caught = "run_pytest" THEN run_tests_except(pytest.error)
       ELSE IF caught = "_get_llm_judgment" THEN run_tests_except(PrintError175)
       ELSE IF caught = "print" THEN run_tests_except(PrintError56)
       ELSE \* lines 35-84
         LET test_summary == parse_pytest_output(pytest)
             judge_decision ==
                 get_llm_judgment(llm, pytest.success, pytest.failed_tests).decision
         IN [all_passed |-> pytest.success,
             total_tests |-> test_summary.total,
             passed |-> test_summary.passed,
             failures |-> test_summary.failed,
             judge_status |-> Get(judge_decision, "status", "UNKNOWN"),
             judge_reason |-> Get(judge_decision, "reason",
                                  Str("No reason provided")),
             judge_action |-> Get(judge_decision, "action", "STOP")]

\* refactor, line 138, with the JudgeAgent as self.judge: run_tests runs to
\* its return statement, and the tests it ran have had their effect on the
\* files of the target directory.  The LLM is not called when run_pytest
\* raised.
JudgeIdle == pc = "judge" /\ judge.pc = "idle"
JudgeCall(pytest, llm) ==
    /\ JudgeIdle
    /\ judge' = [pc |-> "returned",
                 pytest |-> pytest.kind,
                 llm |-> IF pytest.kind = "raise" THEN "not called" ELSE llm.kind,
                 caught |-> run_tests_caught(pytest, llm),
                 result |-> run_tests(pytest, llm)]
    /\ disk' = pytest_effect(disk, pytest.writes)
    /\ UNCHANGED <<max_iterations, pc, iteration, stats, plan, files_modified,
                   all_passed, judge_action, judge_reason, calls, never_converge, exception,
                   auditor, fixer, config>>

\* The call, for any of the given outcomes of run_pytest and of the LLM.
JudgeCalls(pytests, llms) ==
    JudgeIdle /\ \E pytest \in pytests, llm \in llms : JudgeCall(pytest, llm)

\* The returned dict becomes test_result and refactor decides on it.
JudgeReturn ==
    /\ judge.pc = "returned"
    /\ ValidatePhase(judge.result)

\* refactor with JudgeAgent.run_tests behind self.judge.  The Auditor and
\* the Fixer stay test doubles; what they return does not reach run_tests,
\* so each iteration they report ScenarioPlan and one modified file.
JudgeNext ==
    \/ WhileTest
    \/ AuditPhase(PlanReturn(ScenarioPlan))
    \/ FixPhase([files_modified |-> 1])
    \/ JudgeCalls(PytestOutcomes, LLMOutcomes)
    \/ JudgeReturn
    \/ Report

JudgeSpec == Init /\ [][JudgeNext]_vars

\* ------------------------------ JudgeAgent._extract_json_from_response
\* A reply of the LLM is a str: the texts explored are made of at most
\* MaxText pieces, chosen so that replies hold objects with members,
\* objects inside objects, braces inside strings, text around the object
\* and code fences.  A TLA+ string cannot hold the backquote: the
\* apostrophe stands for it, so Fence is the text of three backquotes.
Fence == "'''"
FenceJson == Fence \o "json"
Pieces == {"{", "}", "\"a\":", "1", "\"}\"", ",", " ", "a", Fence, FenceJson}

RECURSIVE Concat(_)
Concat(pieces) ==
    IF pieces = <<>> THEN "" ELSE Head(pieces) \o Concat(Tail(pieces))

Texts == {Concat(p) : p \in UNION {[1..n -> Pieces] : n \in 0..MaxText}}

\* text[i:i+1] with i counted from 0: one character, "" past the end.
CharAt(text, i) ==
    IF 0 <= i /\ i < Len(text) THEN SubSeq(text, i + 1, i + 1) ELSE ""

\* text[i:j] with 0 <= i <= j <= len(text).
Sub(text, i, j) == SubSeq(text, i + 1, j)

\* The indices (from 0) at which sub occurs in text.
Occurrences(text, sub) ==
    {i \in 0..(Len(text) - Len(sub)) : Sub(text, i, i + Len(sub)) = sub}

\* str.find and str.rfind: the first and the last index, -1 when none.
Find(text, sub) ==
    LET occ == Occurrences(text, sub)
    IN IF occ = {} THEN 0 - 1
       ELSE CHOOSE i \in occ : \A j \in occ : i <= j
RFind(text, sub) ==
    LET occ == Occurrences(text, sub)
    IN IF occ = {} THEN 0 - 1
       ELSE CHOOSE i \in occ : \A j \in occ : j <= i

\* sub in text
Contains(text, sub) == Occurrences(text, sub) # {}

\* text.split(sep)[0]: the part ahead of the first separator.
SplitFirst(text, sep) ==
    IF Contains(text, sep) THEN Sub(text, 0, Find(text, sep)) ELSE text

\* text.split(sep)[1], for a text that holds sep: the part between the
\* first separator and the next.
SplitSecond(text, sep) ==
    SplitFirst(Sub(text, Find(text, sep) + Len(sep), Len(text)), sep)

\* str.strip(): the blanks at both ends are dropped.
RECURSIVE Strip(_)
Strip(text) ==
    IF text = "" THEN text
    ELSE IF CharAt(text, 0) = " " THEN Strip(Sub(text, 1, Len(text)))
    ELSE IF CharAt(text, Len(text) - 1) = " "
    THEN Strip(Sub(text, 0, Len(text) - 1))
    ELSE text

\* json.decoder: WHITESPACE.match(s, end).end(), the index behind the
\* blanks that start at end.
RECURSIVE SkipWhitespace(_, _)
SkipWhitespace(s, end) ==
    IF CharAt(s, end) = " " THEN SkipWhitespace(s, end + 1) ELSE end

\* What a scanning function of json.decoder does: it returns the value
\* and the index behind it, or raises JSONDecodeError.
Scanned(value, end) == [ok |-> TRUE, value |-> value, end |-> end]
DecodeError == [ok |-> FALSE]

\* The values of the JSON texts, tagged like every Python value.
IntValue(n) == [type |-> "int", int |-> n]
DictValue(items) == [type |-> "dict", items |-> items]

\* json.decoder.scanstring(s, end), end being the index behind the opening
\* quote: the text up to the next quote (the texts explored hold neither
\* backslash nor control character).
scanstring(s, end) ==
    LET rest == Sub(s, end, Len(s))
        close == Find(rest, "\"")
    IN IF close < 0 THEN DecodeError        \* Unterminated string
       ELSE Scanned(Str(Sub(rest, 0, close)), end + close + 1)

\* The index behind the digits that start at end, and int() of digits (of
\* the digits, the texts explored hold 1).
RECURSIVE SkipDigits(_, _)
SkipDigits(s, end) ==
    IF CharAt(s, end) = "1" THEN SkipDigits(s, end + 1) ELSE end
RECURSIVE int(_)
int(digits) ==
    IF digits = "" THEN 0
    ELSE 10 * int(Sub(digits, 0, Len(digits) - 1)) + 1

RECURSIVE scan_once(_, _)
RECURSIVE JSONObject(_, _)
RECURSIVE JSONObjectPairs(_, _, _)

\* json.scanner, _scan_once(string, idx): a string, an object or a number;
\* any other character of the texts explored, or the end of the text, is
\* "Expecting value".
scan_once(s, idx) ==
    LET nextchar == CharAt(s, idx)
    IN IF nextchar = "\"" THEN scanstring(s, idx + 1)
       ELSE IF nextchar = "{" THEN JSONObject(s, idx + 1)
       ELSE IF nextchar = "1"
       THEN Scanned(IntValue(int(Sub(s, idx, SkipDigits(s, idx)))), SkipDigits(s, idx))
       ELSE DecodeError

\* json.decoder.JSONObject, end being the index behind the opening brace:
\* the empty object, or the opening quote of the first key.
JSONObject(s, end) ==
    LET first == CharAt(s, end)
        at == IF first = " " THEN SkipWhitespace(s, end) ELSE end
        nextchar == CharAt(s, at)
    IN IF nextchar = "}" THEN Scanned(DictValue(<<>>), at + 1)
       ELSE IF nextchar # "\"" THEN DecodeError   \* Expecting property name
       ELSE JSONObjectPairs(s, at + 1, <<>>)

\* The loop of JSONObject, end being the index behind the opening quote of
\* a key and pairs the members read so far: key, colon, value, then the
\* closing brace or a comma and the next key.  A key that comes twice
\* keeps its last value (dict(pairs)).
JSONObjectPairs(s, end, pairs) ==
    LET key == scanstring(s, end)
    IN IF ~key.ok THEN DecodeError
       ELSE
         LET colon == IF CharAt(s, key.end) # ":"
                      THEN SkipWhitespace(s, key.end) ELSE key.end
         IN IF CharAt(s, colon) # ":" THEN DecodeError   \* Expecting ':'
            ELSE
              LET value == scan_once(s, SkipWhitespace(s, colon + 1))
              IN IF ~value.ok THEN DecodeError           \* Expecting value
                 ELSE
                   LET at == SkipWhitespace(s, value.end)
                       nextchar == CharAt(s, at)
                       items == SetItem(pairs, key.value.value, value.value)
                   IN IF nextchar = "}" THEN Scanned(DictValue(items), at + 1)
                      ELSE IF nextchar # "," THEN DecodeError  \* Expecting ','
                      ELSE
                        LET quote == SkipWhitespace(s, at + 1)
                        IN IF CharAt(s, quote) # "\"" THEN DecodeError
                           ELSE JSONObjectPairs(s, quote + 1, items)

\* json.loads(json_str), line 204 (JSONDecoder.decode): the value of the
\* text, or JSONDecodeError when no value can be read or when anything but
\* blanks follows it ("Extra data").
json_loads(json_str) ==
    LET scanned == scan_once(json_str, SkipWhitespace(json_str, 0))
    IN IF ~scanned.ok THEN [kind |-> "JSONDecodeError"]
       ELSE IF SkipWhitespace(json_str, scanned.end) # Len(json_str)
       THEN [kind |-> "JSONDecodeError"]
       ELSE [kind |-> "return", value |-> scanned.value]

\* Lines 185-195: the text inside the first code fence, when there is one.
strip_fences(llm_output) ==
    LET cleaned == Strip(llm_output)                            \* line 185
    IN IF Contains(cleaned, FenceJson)                          \* line 188
       THEN LET inner == SplitSecond(cleaned, FenceJson)        \* line 189
            IN IF Contains(inner, Fence)                        \* line 190
               THEN SplitFirst(inner, Fence)
               ELSE inner
       ELSE IF Contains(cleaned, Fence)                         \* line 192
       THEN SplitSecond(cleaned, Fence)                         \* lines 193-195
       ELSE cleaned

\* _extract_json_from_response, lines 183-206: the value json.loads
\* returns, or the exception that leaves the function.
extract_json_from_response(llm_output) ==
    LET cleaned == Strip(strip_fences(llm_output))              \* line 197
        start == Find(cleaned, "{")                             \* line 200
        end == RFind(cleaned, "}") + 1                          \* line 201
    IN IF start >= 0 /\ end > start                             \* line 202
       THEN json_loads(Sub(cleaned, start, end))
       ELSE [kind |-> "ValueError"]

\* run_tests, lines 35-44, and _get_llm_judgment, lines 138-143:
\* run_pytest has returned, the tests having written what they write, and
\* the LLM has answered.
LLMReplies(writes, text) ==
    /\ pc = "judge"
    /\ judge.pc = "idle"
    /\ judge' = [pc |-> "reply", llm_output |-> text]
    /\ disk' = pytest_effect(disk, writes)
    /\ UNCHANGED <<max_iterations, pc, iteration, stats, plan, files_modified,
                   all_passed, judge_action, judge_reason, calls, never_converge, exception,
                   auditor, fixer, config>>

\* The tests write any of the writes and the LLM answers with any of the
\* texts.
LLMAnswers ==
    JudgeIdle /\ \E writes \in PytestWrites, text \in Texts :
                    LLMReplies(writes, text)

\* The outcomes of run_pytest with which the LLM is not asked.
PytestRaises == {pytest \in PytestOutcomes : pytest.kind = "raise"}

\* _get_llm_judgment, lines 146-151: the reply is parsed.
ExtractJson ==
    /\ pc = "judge"
    /\ judge.pc = "reply"
    /\ judge' = [pc |-> "parsed", llm_output |-> judge.llm_output,
                 outcome |-> extract_json_from_response(judge.llm_output)]
    /\ UNCHANGED <<max_iterations, pc, iteration, stats, plan, files_modified,
                   all_passed, judge_action, judge_reason, calls, never_converge, exception,
                   auditor, fixer, disk, config>>

\* A run up to the parse of the Judge's reply, for every reply; when
\* run_pytest raises the LLM is not asked and run_tests returns.
ExtractNext ==
    \/ WhileTest
    \/ AuditPhase(PlanReturn(ScenarioPlan))
    \/ FixPhase([files_modified |-> 1])
    \/ LLMAnswers
    \/ ExtractJson
    \/ JudgeCalls(PytestRaises, {[kind |-> "raise", printable |-> TRUE]})
    \/ JudgeReturn
    \/ Report

ExtractSpec == Init /\ [][ExtractNext]_vars

\* ==================================================== FixerAgent.fix_issues
\* src/src/agents/fixer_agent.py.  The file tools are the fixer's
\* environment (src/src/tools/file_operations.py): read_file and write_file
\* raise PermissionError when is_path_allowed rejects the path, and the
\* underlying read or write may fail with an OSError of its own.

\* read_file(file_path): raises, or returns the text of the file.
ReadOutcomes == {"ok", "PermissionError", "OSError"}

\* write_file(file_path, content): is_path_allowed rejects the path and
\* PermissionError is raised before the file is opened; or
\* path.write_text(content) fails with an OSError, either on opening the
\* file, which then keeps its text, or after open(..., "w") has emptied it
\* and the first `written` characters of content have reached it (file
\* size limit, full disk); or the text of the file is replaced.
WriteOutcomes ==
    {[kind |-> "ok"], [kind |-> "PermissionError"],
     [kind |-> "OSError", opened |-> FALSE]}
    \cup {[kind |-> "OSError", opened |-> TRUE, written |-> k] :
             k \in 0..(LongestCode - 1)}

\* The test by ast.parse alone, which accepts the empty text.
has_syntax_error_parse_only(code) == code \in InvalidCodes \ {""}

\* _has_syntax_error, lines 285-293.
has_syntax_error(code) == code \in InvalidCodes

\* write_file, src/src/tools/file_operations.py lines 11-15, once
\* is_path_allowed has accepted the path: path.write_text(content).
write_file(d, file_path, content) == [d EXCEPT ![file_path] = content]

\* The same call when path.write_text raises OSError: the file keeps its
\* text when it could not be opened, and otherwise holds the part of
\* content that had been written when the write failed.
write_file_fails(d, file_path, content, write) ==
    IF write.opened
    THEN [d EXCEPT ![file_path] = SubSeq(content, 1, write.written)]
    ELSE d

\* _apply_fixes_with_llm, lines 217-253: get_fixer_prompt() holds the braces
\* of its JSON example and no {code} field, so template.format raises
\* KeyError at line 221; the except clause at line 251 returns code.
apply_fixes_with_llm(code) == code

\* _apply_targeted_fixes, lines 101-137: basic is the text after the
\* _fix_syntax_error passes (code itself when none applies); without issues
\* the loop at line 106 has nothing to pass over; when the passes changed
\* nothing and there are issues the LLM fix is tried.
apply_targeted_fixes(code, issues, basic) ==
    IF Len(issues) = 0 THEN code
    ELSE IF basic = code THEN apply_fixes_with_llm(code)
    ELSE basic

\* list.extend
extend(list, other) == list \o other

\* Lines 57-61 as called by refactor, with detected_issues and plan the same
\* dict: file_issues is bound to the list stored under file_path (line 59)
\* and that list is extended by the list stored under file_path (line 61).
file_issues_of(p, f) == extend(p[f], p[f])

\* Lines 44-48: the files fix_issues goes through.
all_files_to_fix(p, detected_issues) == DOMAIN p \cup DOMAIN detected_issues

\* Lines 37 and 95-99: the dict fix_issues returns (fixes_log left out:
\* refactor does not read it).
fix_issues_return(n, all_changes) ==
    [files_modified |-> n, changes_applied |-> all_changes]

\* Line 119, the call, down to line 48: the set of files to fix.
FixerCall ==
    /\ pc = "fix"
    /\ fixer.pc = "idle"
    /\ fixer' = IF DOMAIN plan.plan = {}
                THEN [pc |-> "returned", given |-> plan.plan, log |-> <<>>,
                      attempts |-> {}, written |-> {},
                      result |-> fix_issues_return(0, <<>>)]      \* lines 35-37
                ELSE [pc |-> "files", given |-> plan.plan, log |-> <<>>,
                      attempts |-> {}, written |-> {},
                      todo |-> all_files_to_fix(plan.plan, plan.plan),
                      files_modified |-> 0,
                      all_changes |-> <<>>]
    /\ UNCHANGED <<max_iterations, pc, iteration, stats, plan, files_modified,
                   all_passed, judge_action, judge_reason, calls, never_converge, exception,
                   auditor, judge, disk, config>>

\* Lines 50-92: one pass of the loop over all_files_to_fix (a set, so the
\* order is not fixed), for file f.  attempts is the history of the
\* write_file calls of this fix_issues call and written that of the calls
\* that returned; a call that raised is caught at lines 91-92 like a failed
\* read, and nothing is counted for the file.
FixFile(f, read, basic, write) ==
    /\ pc = "fix"
    /\ fixer.pc = "files"
    /\ f \in fixer.todo
    /\ IF read # "ok"
       THEN \* read_file raised at line 54; lines 91-92 print and go on
            /\ fixer' = [fixer EXCEPT !.todo = @ \ {f},
                             !.log = Append(@, [file |-> f,
                                                outcome |-> read \o " (read_file)"])]
            /\ UNCHANGED <<plan, disk>>
       ELSE LET original_code == disk[f]
                file_issues == file_issues_of(plan.plan, f)
                fixed_code == apply_targeted_fixes(original_code, file_issues, basic)
                llm_code == apply_fixes_with_llm(original_code)
                valid == ~has_syntax_error(fixed_code)               \* line 67
                to_write ==
                    IF valid
                    THEN fixed_code # original_code                  \* line 68
                    ELSE ~has_syntax_error(llm_code) /\ llm_code # original_code
                content == IF valid THEN fixed_code ELSE llm_code
                status == IF valid THEN "FIXED" ELSE "FIXED_LLM"
                outcome ==
                    IF ~to_write THEN (IF valid THEN "untouched" ELSE "invalid")
                    ELSE IF write.kind # "ok"
                    THEN write.kind \o " (write_file)"   \* write_file raised
                    ELSE status
                done == outcome \in {"FIXED", "FIXED_LLM"}
                call == [file |-> f, content |-> content,
                         original |-> original_code]
            IN /\ (to_write /\ write.kind = "OSError" /\ write.opened)
                     => write.written < Len(content)
               /\ plan' = [plan EXCEPT !.plan[f] = file_issues]
               /\ disk' = IF done THEN write_file(disk, f, content)
                          ELSE IF to_write /\ write.kind = "OSError"
                          THEN write_file_fails(disk, f, content, write)
                          ELSE disk
               /\ fixer' = [fixer EXCEPT
                               !.todo = @ \ {f},
                               !.files_modified = IF done THEN @ + 1 ELSE @,
                               !.all_changes =
                                   IF done
                                   THEN Append(@, [file |-> f, status |-> status])
                                   ELSE @,
                               !.attempts = IF to_write THEN @ \cup {call} ELSE @,
                               !.written = IF done THEN @ \cup {call} ELSE @,
                               !.log = Append(@, [file |-> f, outcome |-> outcome])]
    /\ UNCHANGED <<max_iterations, pc, iteration, stats, files_modified,
                   all_passed, judge_action, judge_reason, calls, never_converge, exception,
                   auditor, judge, config>>

\* Lines 94-99: the return statement.
FixerFinish ==
    /\ pc = "fix"
    /\ fixer.pc = "files"
    /\ fixer.todo = {}
    /\ fixer' = [pc |-> "returned", given |-> fixer.given, log |-> fixer.log,
                 attempts |-> fixer.attempts, written |-> fixer.written,
                 result |-> fix_issues_return(fixer.files_modified,
                                              fixer.all_changes)]
    /\ UNCHANGED <<max_iterations, pc, iteration, stats, plan, files_modified,
                   all_passed, judge_action, judge_reason, calls, never_converge, exception,
                   auditor, judge, disk, config>>

\* The returned dict becomes fix_result and refactor goes on from line 121.
FixerReturn ==
    /\ fixer.pc = "returned"
    /\ FixPhase(fixer.result)

\* The runs of pytest and the replies of the LLM behind the Judge of
\* FixerSpec: one test, which passes or fails and leaves the files alone or
\* overwrites B, and a reply that stops the run or sends it back to AUDIT.
FixerPytestRuns ==
    {run \in PytestRuns :
        /\ run.passed = 1 /\ run.failed = 0 /\ run.failed_tests = <<>>
        /\ run.writes \in {[kind |-> "none"],
                           [kind |-> "write", file |-> "B", content |-> "a="]}}
FixerLLMReplies ==
    {[kind |-> "json", printable |-> TRUE,
      decision |-> [status |-> "PASS", action |-> a, reason |-> Str("tests fail")]] :
        a \in {"STOP", "RETURN_TO_AUDIT"}}

\* refactor with FixerAgent.fix_issues behind self.fixer and
\* JudgeAgent.run_tests behind self.judge.  The Auditor stays a test
\* double that returns a Plan: analyze only lists and reads the files and
\* has pylint read them (auditor_agent.py, lines 50-88).
FixerNext ==
    \/ WhileTest
    \/ \E p \in Plans : AuditPhase(PlanReturn(p))
    \/ FixerCall
    \/ \E f \in Files, read \in ReadOutcomes, basic \in Codes, write \in WriteOutcomes :
          FixFile(f, read, basic, write)
    \/ FixerFinish
    \/ FixerReturn
    \/ JudgeCalls(FixerPytestRuns, FixerLLMReplies)
    \/ JudgeReturn
    \/ Report

\* The target directory holds any texts when the run starts.
FixerInit == InitRun /\ disk \in Disks /\ config = Configured

FixerSpec == FixerInit /\ [][FixerNext]_vars

\* ================================================================ claims
\* Where the run stands with respect to this iteration's agent calls.
\* The call of that phase was cut short by an exception or an interrupt.
CutShort(phase) == exception.type # "none" /\ exception.at = phase

AuditReturned == plan.shape # "unset"
FixReturned ==
    calls.audit >= 1 /\ calls.fix = calls.audit /\ pc # "fix" /\ ~CutShort("fix")
JudgeReturned ==
    calls.audit >= 1 /\ calls.judge = calls.audit /\ pc # "judge" /\ ~CutShort("judge")

\* The number of issues of a Plan, counted as (file, position) pairs.
IssueCount(p) == Cardinality(UNION {{<<f, i>> : i \in DOMAIN p[f]} : f \in DOMAIN p})

IsPlan == plan.shape = "plan"
PlanNonEmpty == IsPlan /\ DOMAIN plan.plan # {}
PlanHasIssue == IsPlan /\ \E f \in DOMAIN plan.plan : Len(plan.plan[f]) >= 1

\* Ctrl+C ended the run.
Interrupted == exception.type = "KeyboardInterrupt"

\* The verdict the Judge returned is a Verdict: its reason is a text.
ReasonIsText == judge_reason.type = "str"

\* The loop has been left with this final_status: refactor stands at line
\* 172, about to print the summary, save the report and return stats, or it
\* has returned stats (or Ctrl+C has stopped it on the way from line 172).
Returned(status) ==
    /\ stats.final_status = status
    /\ pc \in {"report", "done"} \/ (Interrupted /\ exception.at = "report")

\* ---- C1
StallCase ==
    /\ max_iterations > 1
    /\ iteration = 1
    /\ FixReturned
    /\ PlanHasIssue
    /\ files_modified = 0

\* C1: stall termination.  For every max_iterations > 1, once the first AUDIT
\* has returned a Plan with at least one issue and the Fixer has reported
\* zero modified resources, refactor has returned PARTIAL with iterations = 1
\* after a single AUDIT, and no agent is invoked from then on.
C1_StallTermination ==
    /\ [](StallCase => /\ Returned("PARTIAL")
                       /\ stats.iterations = 1
                       /\ calls = [audit |-> 1, fix |-> 1, judge |-> 0])
    /\ [][StallCase => calls' = calls]_vars

C1_Witness == StallCase /\ max_iterations = MaxIter /\ Returned("PARTIAL")

\* ---- C2
Ended == pc \in {"done", "raised"}

\* C2: budget respect.  For every max_iterations >= 1, a run in which every
\* AUDIT returns a non-empty Plan, every FIX modifies at least one file and
\* every verdict is all_passed=false with RETURN_TO_AUDIT (and a text as
\* its reason) comes to an end,
\* and it ends only by returning MAX_ITERATIONS with iterations equal to
\* max_iterations, having run each phase max_iterations times.
C2_BudgetRespect ==
    /\ []((max_iterations >= 1 /\ never_converge /\ Ended)
            => /\ Returned("MAX_ITERATIONS")
               /\ stats.iterations = max_iterations
               /\ calls = [audit |-> max_iterations, fix |-> max_iterations,
                           judge |-> max_iterations])
    /\ <>Ended

C2_Witness ==
    /\ never_converge
    /\ max_iterations = MaxIter
    /\ Returned("MAX_ITERATIONS")
    /\ stats.iterations = MaxIter

\* ---- C3
EmptyPlanCase ==
    /\ iteration = 1
    /\ AuditReturned
    /\ IsPlan
    /\ DOMAIN plan.plan = {}

\* C3: empty-plan short-circuit.  Once the Auditor has returned an empty Plan
\* on iteration 1, refactor has returned SUCCESS with iterations = 1, the
\* Fixer and the Judge have not been invoked, and none is invoked later.
C3_EmptyPlanShortCircuit ==
    /\ [](EmptyPlanCase => /\ Returned("SUCCESS")
                           /\ stats.iterations = 1
                           /\ calls = [audit |-> 1, fix |-> 0, judge |-> 0])
    /\ [][EmptyPlanCase => calls' = calls]_vars

C3_Witness == EmptyPlanCase /\ Returned("SUCCESS") /\ max_iterations = MaxIter

\* ---- C4
HumanCase == JudgeReturned /\ judge_action = "REQUIRE_HUMAN" /\ ReasonIsText

\* C4: whenever the Judge returned a verdict (its reason a text) with
\* REQUIRE_HUMAN, refactor has ended with NEEDS_HUMAN in that iteration,
\* also when all_passed is true.
C4_EscalationPrecedence == HumanCase => Returned("NEEDS_HUMAN")

\* ---- C5
\* C5: once analyze has returned a result that reports no issues (plan
\* mapping empty, issues_found 0), refactor has returned SUCCESS in that
\* iteration without invoking the Fixer or the Judge in it.
C5_CleanAuditSucceeds ==
    (AuditReturned /\ plan.shape = "analyze"
        /\ plan.issues_found = 0 /\ DOMAIN plan.plan = {})
        => /\ Returned("SUCCESS")
           /\ calls.fix < calls.audit
           /\ calls.judge < calls.audit

\* ---- C6
OnePassCase ==
    /\ iteration = 1
    /\ JudgeReturned
    /\ IsPlan
    /\ IssueCount(plan.plan) >= 1
    /\ files_modified >= 1
    /\ all_passed
    /\ judge_action = "STOP"

\* C6: single-iteration success.  Once the first AUDIT returned a Plan with
\* k >= 1 issues, the Fixer reported m >= 1 modified files and the Judge
\* reported all_passed=true with STOP, refactor has returned SUCCESS with
\* iterations = 1, total_files_modified = m and total_issues_found = k.
C6_SingleIterationSuccess ==
    OnePassCase => /\ Returned("SUCCESS")
                   /\ stats.iterations = 1
                   /\ stats.total_files_modified = files_modified
                   /\ stats.total_issues_found = IssueCount(plan.plan)

\* The scenario of the specification: Plan = {A: [issue1, issue2]}, m = 1.
C6_Witness ==
    /\ OnePassCase
    /\ plan.plan = [f \in {"A"} |-> <<"issue1", "issue2">>]
    /\ files_modified = 1
    /\ stats.total_issues_found = 2
    /\ stats.total_files_modified = 1
    /\ Returned("SUCCESS")

\* ---- C7
\* C7: in every reachable state of refactor the iteration counter is at
\* most max_iterations.
C7_IterationWithinBudget == iteration <= max_iterations

\* ---- C8
\* The iteration in which the counter equals max_iterations, its Plan not
\* empty and no file modified by the Fixer.  The Judge is not called in
\* such an iteration (lines 128-132), so it has no action.
StallAtCapCase ==
    /\ iteration = max_iterations
    /\ FixReturned
    /\ PlanNonEmpty
    /\ files_modified = 0

\* C8: in the iteration where the counter equals max_iterations, a
\* non-empty Plan with zero modified resources ends the run with
\* MAX_ITERATIONS, not PARTIAL.
C8_BudgetBeforeStall == StallAtCapCase => Returned("MAX_ITERATIONS")

\* ---- C9
StopCase == JudgeReturned /\ judge_action = "STOP" /\ ReasonIsText

\* C9: whenever the Judge returned a verdict (its reason a text) with STOP,
\* refactor has ended in that same iteration, also below the budget:
\* STOPPED when all_passed is false, SUCCESS when it is true; no agent is
\* invoked from then on.
C9_StopEndsRun ==
    /\ [](StopCase => IF all_passed THEN Returned("SUCCESS") ELSE Returned("STOPPED"))
    /\ [][StopCase => calls' = calls]_vars

C9_Witness ==
    /\ StopCase
    /\ ~all_passed
    /\ iteration < max_iterations
    /\ Returned("STOPPED")

\* ---- C10
\* C10: every run in which each agent call returns ends by returning a
\* result whose final_status is one of the five terminal tags, never UNKNOWN.
C10_FinalStatusTerminal ==
    (pc \in {"done", "raised"} /\ exception.type \notin {"Exception", "KeyboardInterrupt"})
        => pc = "done" /\ stats.final_status \in TerminalStatuses

\* ---- C11
\* C11: monotonic statistics.  No step of a run decreases total_issues_found
\* or total_files_modified, whatever the agents return.
C11_MonotonicStatistics ==
    [][/\ stats'.total_issues_found >= stats.total_issues_found
       /\ stats'.total_files_modified >= stats.total_files_modified]_vars

\* Both totals carry the first iteration's share into the second.
C11_Witness ==
    /\ iteration = 2
    /\ FixReturned
    /\ IsPlan
    /\ files_modified >= 1
    /\ IssueCount(plan.plan) >= 1
    /\ stats.total_issues_found > IssueCount(plan.plan)
    /\ stats.total_files_modified > files_modified

\* ---- C12
\* C12: when analyze, fix_issues or run_tests raises, refactor catches the
\* exception and returns a result with a terminal status; it is not left by
\* the exception.
C12_AgentFailureCaught ==
    exception.type = "Exception"
        => pc = "done" /\ stats.final_status \in TerminalStatuses

\* ---- C13
\* run_tests caught an exception of run_pytest or of the LLM call.
JudgeCaughtRaise ==
    /\ judge.pc = "returned"
    /\ (judge.pytest = "raise" \/ judge.llm = "raise")

\* C13: when run_pytest raises or the LLM judgment call raises, the verdict
\* run_tests returns has status FAIL_UNCERTAIN and action REQUIRE_HUMAN, and
\* once refactor has decided on it the run has returned NEEDS_HUMAN.
C13_JudgeFailureEscalates ==
    JudgeCaughtRaise
        => /\ judge.result.judge_status = "FAIL_UNCERTAIN"
           /\ judge.result.judge_action = "REQUIRE_HUMAN"
           /\ (JudgeReturned => Returned("NEEDS_HUMAN"))

\* ---- C14
\* run_tests caught an internal failure: pytest could not be run, the LLM
\* call raised, its reply could not be parsed, or print raised on a text
\* of the LLM (lines 56 and 175).
JudgeCaughtFailure ==
    /\ judge.pc = "returned"
    /\ \/ judge.llm \in {"raise", "unparsable"}
       \/ judge.caught # "none"

\* C14: in an iteration where the judge caught an internal failure, refactor
\* does not return SUCCESS.
C14_ErrorNeverSuccess ==
    (JudgeCaughtFailure /\ JudgeReturned) => ~Returned("SUCCESS")

\* ---- C15
\* C15: when fix_issues(target_dir, plan, detected_issues=plan) has returned,
\* every issue list of the Plan is what it was when the call was made.
C15_FixerLeavesPlan ==
    fixer.pc = "returned" => plan.plan = fixer.given

\* ---- C16
\* C16: phase ordering.  An agent call is in progress exactly when pc names
\* its phase, so at most one is in progress.  While the Auditor runs, the
\* Fixer and the Judge have completed only the earlier iterations; the
\* Fixer runs only after this iteration's Auditor call has returned and
\* before its Judge call; the Judge runs only after this iteration's Fixer
\* call has returned.  A call is started only by the step that ends the
\* phase before it, and an AUDIT only once the previous iteration's
\* decision has been made (pc = "loop").
C16_PhaseOrdering ==
    /\ [](/\ calls.audit = iteration
          /\ calls.judge <= calls.fix
          /\ calls.fix <= calls.audit
          /\ calls.audit <= calls.judge + 1
          /\ pc = "audit" => (calls.fix = iteration - 1 /\ calls.judge = iteration - 1
                                /\ ~AuditReturned)
          /\ pc = "fix" => (calls.fix = iteration /\ calls.judge = iteration - 1
                              /\ AuditReturned)
          /\ pc = "judge" => (calls.fix = iteration /\ calls.judge = iteration
                                /\ AuditReturned)
          /\ pc = "loop" => (calls.fix = iteration /\ calls.judge = iteration))
    /\ [][/\ calls'.audit # calls.audit => (pc = "loop" /\ pc' = "audit")
          /\ calls'.fix # calls.fix => (pc = "audit" /\ pc' = "fix")
          /\ calls'.judge # calls.judge => (pc = "fix" /\ pc' = "judge")]_vars

\* The Judge of the second iteration is running.
C16_Witness ==
    /\ pc = "judge"
    /\ iteration = 2
    /\ calls = [audit |-> 2, fix |-> 2, judge |-> 2]

\* ---- C17
\* analyze met an error of the kind the claim lists, for some file or for
\* the listing.
InternalErrorSeen ==
    \/ auditor.caught \in {"list_python_files", "read_file raises",
                           "run_pylint raises", "_analyze_file raises"}
    \/ \E i \in DOMAIN auditor.log : auditor.log[i].step = "call raises"

\* C17: when analyze has returned after an error in listing the files,
\* reading a file, running pylint or calling the LLM, the plan of its
\* result is empty and issues_found is 0.
C17_FailsClosed ==
    (auditor.pc = "returned" /\ InternalErrorSeen)
        => DOMAIN auditor.result.plan = {} /\ auditor.result.issues_found = 0

\* ---- C18
\* The reply for the i-th file was not JSON or not of the shape asked for.
Malformed(i) ==
    auditor.log[i].step \in {"not json", "not an object", "issues number", "issues text"}

\* C18: a malformed reply does not abort the run.  _analyze_file has then
\* returned an empty issue list for that file, and once analyze has
\* returned without any other error every file has been handled and the
\* issues found for the other files are in the plan.
C18_MalformedReplyTolerated ==
    auditor.pc \in {"files", "llm", "returned"}
        => \A i \in DOMAIN auditor.log :
              Malformed(i)
                => /\ auditor.log[i].file_plan = EmptyIssues
                   /\ (auditor.pc = "returned" /\ auditor.caught = "none")
                        => /\ auditor.result.files_analyzed = auditor.python_files
                           /\ \A j \in DOMAIN auditor.log \ {i} :
                                 Len(auditor.log[j].found) > 0
                                    => auditor.result.plan[auditor.log[j].file]
                                          = auditor.log[j].found

\* ---- C19
\* C19: cooperative cancellation.  A user interrupt takes effect only
\* between phases, never while analyze, fix_issues or run_tests is running,
\* and the interrupted run still returns its statistics.
C19_CooperativeCancellation ==
    exception.type = "KeyboardInterrupt"
        => exception.at = "loop" /\ pc = "done"

\* ---- C20
\* The i-th file fix_issues handled made read_file or write_file raise
\* PermissionError.
SandboxSignal(i) ==
    fixer.log[i].outcome
        \in {"PermissionError (read_file)", "PermissionError (write_file)"}

\* C20: once read_file or write_file has raised PermissionError for a file
\* of the Plan, fix_issues handles no further file, and refactor neither
\* invokes the Judge in that iteration nor starts another iteration.
C20_SandboxViolationFatal ==
    fixer.pc \in {"files", "returned"}
        => \A i \in DOMAIN fixer.log :
              SandboxSignal(i) => /\ i = Len(fixer.log)
                                  /\ calls.judge < calls.audit
                                  /\ pc # "loop"

\* ---- C21
\* C21: only the FIX phase changes a target file, and only a file that is a
\* key of this iteration's Plan.  Every step that changes the text of a file
\* is a step of fix_issues on a file named in the Plan; every other file
\* keeps its text over that step, and no step of the AUDIT or JUDGE phase or
\* of refactor itself changes any file.  Every write fix_issues has made is
\* a write to a key of the Plan it was given.
C21_OnlyFixWritesPlanFiles ==
    /\ [][\A f \in Files :
            disk'[f] # disk[f]
               => /\ pc = "fix" /\ pc' = "fix"
                  /\ fixer.pc = "files"
                  /\ IsPlan
                  /\ f \in DOMAIN plan.plan
                  /\ f \in DOMAIN fixer.given
                  /\ \A g \in Files \ {f} : disk'[g] = disk[g]]_vars
    /\ [](fixer.pc \in {"files", "returned"}
            => \A w \in fixer.written : w.file \in DOMAIN fixer.given)

\* ---- C27
\* The files for which a write_file call of this fix_issues call returned,
\* and those for which write_file was called.
FilesWritten == {w.file : w \in fixer.written}
FilesAttempted == {w.file : w \in fixer.attempts}

\* C27: fix_issues calls write_file only with a text that is not empty,
\* parses and differs from the text it read; a file whose candidate text
\* does not parse, or does not differ, is not written and keeps its text.
\* files_modified is the number of files whose write returned and the
\* number of entries of changes_applied, while the call runs and in the
\* dict it returns.  A step of fix_issues changes the text of a file only
\* through such a write_file call: when the call returns the file holds the
\* new text and is counted; when it raises the file holds a part of the
\* new text and is not counted.
C27_WritesOnlyValidChanges ==
    /\ [](fixer.pc \in {"files", "returned"}
            => /\ \A w \in fixer.attempts :
                     /\ w.content # ""
                     /\ w.content \in ValidCodes
                     /\ w.content # w.original
               /\ fixer.written \subseteq fixer.attempts
               /\ Cardinality(FilesWritten) = Cardinality(fixer.written)
               /\ fixer.pc = "files"
                     => /\ fixer.files_modified = Cardinality(FilesWritten)
                        /\ fixer.files_modified = Len(fixer.all_changes)
               /\ fixer.pc = "returned"
                     => /\ fixer.result.files_modified = Cardinality(FilesWritten)
                        /\ fixer.result.files_modified
                              = Len(fixer.result.changes_applied)
               /\ \A i \in DOMAIN fixer.log :
                     fixer.log[i].outcome \in {"invalid", "untouched"}
                        => fixer.log[i].file \notin FilesAttempted)
    /\ [][fixer.pc = "files"
            => /\ \A i \in DOMAIN fixer'.log \ DOMAIN fixer.log :
                     fixer'.log[i].outcome \in {"invalid", "untouched"}
                        => disk' = disk
               /\ \A f \in Files :
                     disk'[f] # disk[f]
                        => \E w \in fixer'.attempts \ fixer.attempts :
                              /\ w.file = f
                              /\ w.original = disk[f]
                              /\ IF w \in fixer'.written
                                 THEN /\ disk'[f] = w.content
                                      /\ fixer'.files_modified
                                            = fixer.files_modified + 1
                                 ELSE /\ \E k \in 0..(Len(w.content) - 1) :
                                            disk'[f] = SubSeq(w.content, 1, k)
                                      /\ fixer'.files_modified
                                            = fixer.files_modified]_vars

\* fix_issues has returned: it rewrote one file, counted it, and left alone
\* a file whose candidate text does not parse.
C27_Witness ==
    /\ fixer.pc = "returned"
    /\ fixer.result.files_modified = 1
    /\ \E w \in fixer.written : disk[w.file] = w.content
    /\ \E i \in DOMAIN fixer.log :
          /\ fixer.log[i].outcome = "invalid"
          /\ disk[fixer.log[i].file] \in InvalidCodes

\* ---- C22
\* The process lacks the API key or the target directory, or the agents
\* have not been constructed.
Unconfigured ==
    ~config.api_key \/ config.target = "missing" \/ ~config.agents

NoPhaseInvoked ==
    /\ calls = [audit |-> 0, fix |-> 0, judge |-> 0]
    /\ iteration = 0
    /\ stats.iterations = 0

\* C22: fail-fast configuration.  While the API key or the target directory
\* is missing or an agent is not constructed, the loop is not entered and
\* no phase has been invoked; once construction and the entry of refactor
\* are behind, such a process has ended with an error: main returned 1, or
\* an exception left the constructor or the first statement of refactor
\* (ValueError when the key or the directory is what is missing), unless
\* Ctrl+C has stopped it before.
C22_FailFast ==
    /\ Unconfigured
         => /\ NoPhaseInvoked
            /\ pc \in {"main", "new", "entry", "exit", "raised"}
            /\ (pc = "raised" /\ ~Interrupted)
                  => exception.at \in {"__init__", "entry"}
            /\ (pc = "raised" /\ Interrupted)
                  => exception.at \in {"main", "new", "entry"}
    /\ (~config.api_key /\ pc = "raised" /\ ~Interrupted)
         => exception = [type |-> "ValueError", at |-> "__init__"]
    /\ (config.api_key /\ config.agents /\ config.target = "missing")
         => /\ pc \in {"entry", "raised"}
            /\ (pc = "raised" /\ ~Interrupted)
                  => exception = [type |-> "ValueError", at |-> "entry"]

\* The orchestrator was constructed without the API key: ValueError.
C22_Witness ==
    /\ ~config.api_key
    /\ config.target = "python files"
    /\ pc = "raised"
    /\ exception = [type |-> "ValueError", at |-> "__init__"]
    /\ NoPhaseInvoked

\* ---- C23
\* C23: every verdict run_tests returns has a status among PASS,
\* FAIL_FIXABLE, FAIL_UNCERTAIN and ERROR and an action among STOP,
\* RETURN_TO_AUDIT and REQUIRE_HUMAN, whatever pytest and the LLM did.
C23_VerdictEnums ==
    judge.pc = "returned"
        => /\ judge.result.judge_status
                \in {"PASS", "FAIL_FIXABLE", "FAIL_UNCERTAIN", "ERROR"}
           /\ judge.result.judge_action
                \in {"STOP", "RETURN_TO_AUDIT", "REQUIRE_HUMAN"}

\* ---- C24
\* C24: every verdict run_tests returns, the one of its error path
\* included, carries total_tests, passed and failures, all non-negative,
\* with total_tests = passed + failures.
C24_VerdictCounts ==
    judge.pc = "returned"
        => /\ {"total_tests", "passed", "failures"} \subseteq DOMAIN judge.result
           /\ judge.result.total_tests >= 0
           /\ judge.result.passed >= 0
           /\ judge.result.failures >= 0
           /\ judge.result.total_tests
                = judge.result.passed + judge.result.failures

\* ---- C25
\* The first n characters of the text are one JSON object and the text
\* behind them holds a brace; the text holds no code fence.
ObjectThenBraces(text, n) ==
    /\ n < Len(text)
    /\ CharAt(text, 0) = "{"
    /\ CharAt(text, n - 1) = "}"
    /\ json_loads(Sub(text, 0, n)).kind = "return"
    /\ ~Contains(text, Fence)
    /\ \/ Contains(Sub(text, n, Len(text)), "{")
       \/ Contains(Sub(text, n, Len(text)), "}")

\* C25: for every reply made of one valid JSON object followed by text
\* that holds braces, the object extracted is that first object.
C25_FirstBalancedObject ==
    judge.pc = "parsed"
        => \A n \in 1..Len(judge.llm_output) :
              ObjectThenBraces(judge.llm_output, n)
                 => judge.outcome = json_loads(Sub(judge.llm_output, 0, n))

\* ---- C26
\* The i-th file analyze handled parsed and the LLM analysis of it came
\* back without issues: no "issues" key, or an empty list, or the empty
\* result _analyze_file returns after an error.
NoIssuesFound(i) ==
    /\ "file_plan" \in DOMAIN auditor.log[i]
    /\ Get(auditor.log[i].file_plan, "issues", <<>>) = <<>>

\* analyze has handled this path, and each time its syntax check and its
\* LLM analysis came back without issues.
NothingFoundIn(f) ==
    /\ \E i \in DOMAIN auditor.log : auditor.log[i].file = f
    /\ \A i \in DOMAIN auditor.log : auditor.log[i].file = f => NoIssuesFound(i)

\* C26: every key of the plan analyze builds, and of the plan it returns,
\* maps to at least one issue; a file whose syntax check and LLM analysis
\* both came back without issues is no key of it.
C26_PlanKeysHaveIssues ==
    /\ auditor.pc \in {"files", "llm"}
         => /\ \A f \in DOMAIN auditor.global_plan : Len(auditor.global_plan[f]) >= 1
            /\ \A f \in Files : NothingFoundIn(f) => f \notin DOMAIN auditor.global_plan
    /\ auditor.pc = "returned"
         => /\ \A f \in DOMAIN auditor.result.plan : Len(auditor.result.plan[f]) >= 1
            /\ \A f \in Files : NothingFoundIn(f) => f \notin DOMAIN auditor.result.plan

\* Two files: the LLM found nothing in the first and two issues in the
\* second, and the returned plan has the second file as its only key.
C26_Witness ==
    /\ auditor.pc = "returned"
    /\ Len(auditor.log) = 2
    /\ auditor.log[1].step = "issues list"
    /\ NoIssuesFound(1)
    /\ auditor.log[2].step = "issues list"
    /\ Len(auditor.log[2].found) = 2
    /\ DOMAIN auditor.result.plan = {auditor.log[2].file}

\* ---- C28
\* The Fixer is invoked only on a non-empty Plan, the Judge only after the
\* Fixer reported at least one modified file.
InvokedOnlyWhenDue ==
    /\ [](pc = "fix" => PlanNonEmpty)
    /\ [](pc = "judge" => PlanNonEmpty /\ files_modified >= 1)
    /\ [][(calls'.fix # calls.fix
             => /\ calls'.fix = calls.fix + 1
                /\ plan'.shape = "plan"
                /\ DOMAIN plan'.plan # {})
          /\ (calls'.judge # calls.judge
                => /\ calls'.judge = calls.judge + 1
                   /\ files_modified' >= 1)]_vars

\* C28: in every reachable state judge calls <= fixer calls <= auditor
\* calls = stats.iterations <= max_iterations, the Fixer is invoked only on
\* a non-empty Plan and the Judge only after a FIX that modified a file.
C28_InvocationCounts ==
    /\ [](/\ calls.judge <= calls.fix
          /\ calls.fix <= calls.audit
          /\ calls.audit = stats.iterations
          /\ stats.iterations <= max_iterations)
    /\ InvokedOnlyWhenDue

\* ---- C29
\* The Judge has returned a failing verdict (its reason a text) whose
\* action is neither REQUIRE_HUMAN nor STOP, below the budget.
ContinueCase ==
    /\ JudgeReturned
    /\ ReasonIsText
    /\ ~all_passed
    /\ judge_action \notin {"REQUIRE_HUMAN", "STOP"}
    /\ iteration < max_iterations

\* C29: after a failing verdict (its reason a text) with an action other
\* than REQUIRE_HUMAN and STOP (RETURN_TO_AUDIT, RETURN_TO_FIXER or any
\* other value) below the
\* budget, refactor has not left the loop: it stands at the loop test, the final
\* status is still unset, and its next step starts the AUDIT of the next
\* iteration (unless the user interrupts the process there).  Whenever
\* refactor has returned on a failing verdict below the budget, the action
\* was REQUIRE_HUMAN or STOP.
C29_OtherActionsContinue ==
    /\ [](ContinueCase
            => /\ stats.final_status = "UNKNOWN"
               /\ pc = "loop" \/ exception = [type |-> "KeyboardInterrupt", at |-> "loop"])
    /\ [][(ContinueCase /\ pc = "loop" /\ pc' # "raised")
             => /\ pc' = "audit"
                /\ iteration' = iteration + 1
                /\ calls'.audit = calls.audit + 1
                /\ calls'.fix = calls.fix
                /\ calls'.judge = calls.judge]_vars
    /\ []((JudgeReturned /\ ReasonIsText /\ ~all_passed
              /\ iteration < max_iterations /\ pc \in {"report", "done"})
            => judge_action \in {"REQUIRE_HUMAN", "STOP"})

\* The verdict of the first iteration failed with an action that is none
\* of the four named values, and refactor stands at the loop test again.
C29_Witness ==
    /\ ContinueCase
    /\ judge_action = "RETRY"
    /\ pc = "loop"
    /\ iteration = 1
    /\ calls = [audit |-> 1, fix |-> 1, judge |-> 1]
    /\ stats.final_status = "UNKNOWN"

\* ---- C30
\* Replies that put _analyze_file into its except clause.
ErrorReplies == {"call raises", "not json", "not an object", "issues number"}

\* C30: _analyze_file calls the LLM at most three times for one file; each
\* retry follows a quota error of the LLM call and nothing else; after any
\* other error, and after the third quota error, it returns an empty issue
\* list.
C30_RetriesOnlyOnQuota ==
    /\ auditor.pc = "llm"
         => /\ Len(auditor.tries) + 1 <= 3
            /\ \A k \in DOMAIN auditor.tries : auditor.tries[k] = "call raises"
    /\ auditor.pc \in {"files", "llm", "returned"}
         => \A i \in DOMAIN auditor.log :
               "tries" \in DOMAIN auditor.log[i]
                  => /\ Len(auditor.log[i].tries) + 1 <= 3
                     /\ \A k \in DOMAIN auditor.log[i].tries :
                           auditor.log[i].tries[k] = "call raises"
                     /\ auditor.log[i].step \in ErrorReplies
                           => auditor.log[i].file_plan = EmptyIssues

====
